---- MODULE Spec2Model ----
(***************************************************************************)
(* Model of the product enrichment agent (integrated_production_agent.py)  *)
(* and of the parts of the web application (app.py) that drive it.         *)
(*                                                                         *)
(* Conventions.                                                            *)
(*  - Text is a TLA+ string; Len, \o and SubSeq act on it as Python's      *)
(*    len, + and slicing do.  Accented letters of the source literals are  *)
(*    written without their accent (one character each, so every length    *)
(*    is the source's).  The separators U+2022, U+2013 and U+2014 of the   *)
(*    title pattern are written "*", "~" and "_".                          *)
(*  - Money is an integer number of cents.  Decimal arithmetic is exact,   *)
(*    so purchase * 1.16 is cents * 116 / 100 and that divided by 0.65 is  *)
(*    cents * 116 / 65.                                                    *)
(*  - A confidence is an integer number of hundredths, a quality score an  *)
(*    integer number of tenths of a point.  The float sums the code forms  *)
(*    (0.3, 0.2, 0.2, 0.3, then 0.3) compare with 0.5, 0.7, 0.8 and 0.95   *)
(*    as the exact sums do.                                                *)
(***************************************************************************)
EXTENDS Integers, Sequences, FiniteSets, TLC

VARIABLES
    priceArg,       \* calculate_prices: its argument
    priceRes,       \* calculate_prices: <<the dict it returned>>, << >> before
    qualArg,        \* evaluate_quality: its arguments
    qualRes,        \* evaluate_quality: <<the score it returned>>, << >> before
    search_tool,    \* self.search_tool is set (TRUE) or None (FALSE)
    browser_tool,   \* self.browser_tool is set (TRUE) or None (FALSE)
    search_cache,   \* self.search_cache: sku -> ProductInfo
    rpc,            \* where search_product_info is: "idle", "query" (top of
                    \* the loop over queries), "results" (in the loop over
                    \* results), "after_loop", "returned", or "raised" (an
                    \* exception left it)
    rsku,           \* its argument sku
    qi,             \* index of the query the loop over queries is at
    ri,             \* number of results of that query already analysed
    best_info,      \* its local best_info
    best_score,     \* its local best_score
    ret,            \* <<the record it returned>>, << >> before it returns
    searchCalls,    \* calls of self.search_tool made by the running call
    searchRaises,   \* how many of them raised
    fetchCalls,     \* calls of self.browser_tool made by the running call
    firstRet,       \* history: sku -> the record its first call returned
    repeatCall,     \* history: the running call's sku had been resolved before
    bpc,            \* where process_excel_file is: "idle", "rows" (top of the
                    \* loop over rows), "done"
    inputFile,      \* the workbook at input_file
    progress_callback, \* the argument progress_callback is given (TRUE)
    df,             \* its local df after validation, a sequence of rows
    idx,            \* position in df of the row the loop is at
    all_results,    \* its local all_results
    processed_count, \* self.processed_count
    valid_count,    \* self.valid_count
    progress,       \* the calls of progress_callback: <<processed, total, valid>>
    outFile,        \* the workbook at output_file: <<its rows>>, << >> if none
    outcome,        \* <<the dict process_excel_file returned>>, << >> before
    caught,         \* history: the positions in df of the rows in whose
                    \* handling the except clause of the loop caught an
                    \* exception
    active_tasks    \* app.py: task_id -> the TaskProgress of the task

priceVars == <<priceArg, priceRes>>
qualVars == <<qualArg, qualRes>>
toolVars == <<search_tool, browser_tool>>
resolverVars == <<search_cache, rpc, rsku, qi, ri, best_info, best_score, ret,
                  searchCalls, searchRaises, fetchCalls, firstRet, repeatCall>>
batchVars == <<bpc, inputFile, progress_callback, df, idx, all_results,
               processed_count, valid_count, progress, outFile, outcome,
               caught, active_tasks>>
\* what search_product_info leaves alone
outerVars == <<priceVars, qualVars, toolVars, batchVars>>
vars == <<priceVars, qualVars, toolVars, resolverVars, batchVars>>

(***************************************************************************)
(* Bounds of the model.                                                    *)
(***************************************************************************)
MaxCents == 70      \* purchase prices 0.00 .. 0.70 and 10.00, 100.00
MaxNegCents == 6    \* negative purchase prices -0.01 .. -0.06

(***************************************************************************)
(* Text: the string operations of Python the agent uses.                   *)
(***************************************************************************)

UpperAlpha == "ABCDEFGHIJKLMNOPQRSTUVWXYZ"
LowerAlpha == "abcdefghijklmnopqrstuvwxyz"
Digits == "0123456789"

\* s[i] as a one-character string (i from 1), "" outside s
CharAt(s, i) == IF i >= 1 /\ i <= Len(s) THEN SubSeq(s, i, i) ELSE ""

\* the characters of s, as a set
CharsOf(s) == {CharAt(s, i) : i \in 1..Len(s)}

IsDigit(c) == c \in CharsOf(Digits)
IsSpace(c) == c \in {" ", "\n", "\t"}
NotLt(c) == c # "<"
NotQuote(c) == c # "\""
NotAnyQuote(c) == c \notin {"\"", "'"}

\* the title pattern's class [|*\-~_] (see the conventions for * ~ _)
IsSeparator(c) == c \in {"|", "*", "-", "~", "_"}

\* s[:n]
Prefix(s, n) == SubSeq(s, 1, IF n < Len(s) THEN n ELSE Len(s))

\* s[i-1:] for i from 1
Suffix(s, i) == SubSeq(s, i, Len(s))

\* sub is found in s at position i
MatchesAt(s, sub, i) ==
    /\ i >= 1
    /\ i + Len(sub) - 1 <= Len(s)
    /\ SubSeq(s, i, i + Len(sub) - 1) = sub

\* sub in s
Contains(s, sub) == \E i \in 1..(Len(s) - Len(sub) + 1) : MatchesAt(s, sub, i)

\* s.find(sub, from) counted from 1; 0 when sub does not occur
IndexFrom(s, sub, from) ==
    LET hits == {i \in from..(Len(s) - Len(sub) + 1) : MatchesAt(s, sub, i)}
    IN  IF hits = {} THEN 0 ELSE CHOOSE i \in hits : \A j \in hits : i <= j

\* s.startswith(p)
StartsWith(s, p) == MatchesAt(s, p, 1)

LowerChar(c) ==
    LET hits == {i \in 1..26 : CharAt(UpperAlpha, i) = c}
    IN  IF hits = {} THEN c ELSE CharAt(LowerAlpha, CHOOSE i \in hits : TRUE)

UpperChar(c) ==
    LET hits == {i \in 1..26 : CharAt(LowerAlpha, i) = c}
    IN  IF hits = {} THEN c ELSE CharAt(UpperAlpha, CHOOSE i \in hits : TRUE)

RECURSIVE LowerRange(_, _, _)
\* s[lo..hi] in lower case (halving keeps the evaluation shallow)
LowerRange(s, lo, hi) ==
    IF lo > hi THEN ""
    ELSE IF lo = hi THEN LowerChar(CharAt(s, lo))
    ELSE LowerRange(s, lo, (lo + hi) \div 2)
         \o LowerRange(s, (lo + hi) \div 2 + 1, hi)

\* s.lower()
Lower(s) == LowerRange(s, 1, Len(s))

RECURSIVE UpperRange(_, _, _)
\* s[lo..hi] in upper case
UpperRange(s, lo, hi) ==
    IF lo > hi THEN ""
    ELSE IF lo = hi THEN UpperChar(CharAt(s, lo))
    ELSE UpperRange(s, lo, (lo + hi) \div 2)
         \o UpperRange(s, (lo + hi) \div 2 + 1, hi)

\* s.upper()
Upper(s) == UpperRange(s, 1, Len(s))

\* s.strip()
Strip(s) ==
    LET Solid(i) == ~IsSpace(CharAt(s, i))
    IN  IF \A i \in 1..Len(s) : ~Solid(i) THEN ""
        ELSE SubSeq(s,
                CHOOSE i \in 1..Len(s) : Solid(i) /\ \A j \in 1..(i - 1) : ~Solid(j),
                CHOOSE i \in 1..Len(s) : Solid(i) /\ \A j \in (i + 1)..Len(s) : ~Solid(j))

RECURSIVE CollapseRange(_, _, _)
\* s[lo..hi] without the blanks that follow a blank
CollapseRange(s, lo, hi) ==
    IF lo > hi THEN ""
    ELSE IF lo = hi
         THEN (IF IsSpace(CharAt(s, lo)) /\ lo > 1 /\ IsSpace(CharAt(s, lo - 1))
               THEN "" ELSE CharAt(s, lo))
    ELSE CollapseRange(s, lo, (lo + hi) \div 2)
         \o CollapseRange(s, (lo + hi) \div 2 + 1, hi)

\* re.sub(r'\s+', ' ', s): of a run of blanks only the first stays
CollapseSpaces(s) == CollapseRange(s, 1, Len(s))

\* re.sub(r'[|*\-~_].*$', '', s) for a title of one line: s is cut at its
\* first separator
CutAtSeparator(s) ==
    LET seps == {i \in 1..Len(s) : IsSeparator(CharAt(s, i))}
    IN  IF seps = {} THEN s
        ELSE SubSeq(s, 1, (CHOOSE i \in seps : \A j \in seps : i <= j) - 1)

RECURSIVE Join(_, _)
\* sep.join(parts)
Join(parts, sep) ==
    IF parts = << >> THEN ""
    ELSE IF Len(parts) = 1 THEN parts[1]
    ELSE parts[1] \o sep \o Join(Tail(parts), sep)

\* c is of the class of characters named cls
InClass(cls, c) ==
    CASE cls = "digit" -> IsDigit(c)
      [] cls = "space" -> IsSpace(c)
      [] cls = "not <" -> NotLt(c)
      [] cls = "not \"" -> NotQuote(c)
      [] cls = "not quote" -> NotAnyQuote(c)

\* the end of the run of characters of class cls that starts at i
\* (i - 1 when s[i] is not of the class)
RunEnd(s, i, cls) ==
    LET stops == {j \in i..Len(s) : ~InClass(cls, CharAt(s, j))}
    IN  IF stops = {} THEN Len(s)
        ELSE (CHOOSE j \in stops : \A k \in stops : j <= k) - 1

(***************************************************************************)
(* ProductInfo and the extraction of a candidate from one search result    *)
(***************************************************************************)

\* the dataclass ProductInfo; confidence_score in hundredths
ProductInfo(sku) ==
    [sku |-> sku, name |-> "", category |-> "", description |-> "",
     specifications |-> "", accessories |-> << >>, filters |-> << >>,
     source_url |-> "", confidence_score |-> 0]

\* self.priority_sites
priority_sites == <<"hikvision.com", "ubitech.fr", "tevah-systems.com", "adi-global.com">>

\* any(site in text for site in self.priority_sites)
AnySiteIn(text) == \E k \in 1..Len(priority_sites) : Contains(text, priority_sites[k])

\* any(word in text for word in words)
AnyWordIn(text, words) == \E w \in words : Contains(text, w)

\* t has, at i, digits, then optional blanks, then the word
DigitsThenWordAt(t, word, i) ==
    /\ i <= Len(t)
    /\ IsDigit(CharAt(t, i))
    /\ MatchesAt(t, word, RunEnd(t, RunEnd(t, i, "digit") + 1, "space") + 1)

\* re.search(r'(\d+)\s*mp|(\d+)\s*megapixel', t): group(1) or group(2) of
\* the leftmost match, "" when there is none
MpGroup(t) ==
    LET hits == {i \in 1..Len(t) : \/ DigitsThenWordAt(t, "mp", i)
                                   \/ DigitsThenWordAt(t, "megapixel", i)}
        first == CHOOSE i \in hits : \A j \in hits : i <= j
    IN  IF hits = {} THEN "" ELSE SubSeq(t, first, RunEnd(t, first, "digit"))

\* the name _extract_info_from_snippet derives from the title
SnippetName(sku, title) ==
    IF Contains(Lower(title), Lower(sku))
    THEN Prefix(CollapseSpaces(Strip(CutAtSeparator(title))), 100)
    ELSE "Produit HIKVISION " \o sku

\* the category _extract_info_from_snippet reads in title + ' ' + snippet
SnippetCategory(text_lower) ==
    IF AnyWordIn(text_lower, {"camera", "cam"})
    THEN IF AnyWordIn(text_lower, {"ip", "network", "reseau"}) THEN "Camera IP"
         ELSE IF AnyWordIn(text_lower, {"turbo", "hd", "analogique"})
              THEN "Camera Analogique"
              ELSE "Camera"
    ELSE IF AnyWordIn(text_lower, {"nvr", "enregistreur"}) THEN "Enregistreur"
    ELSE IF AnyWordIn(text_lower, {"adaptateur", "alimentation", "power"})
         THEN "Accessoire"
    ELSE "Securite"

\* the list specs of _extract_info_from_snippet
SnippetSpecs(text_lower) ==
    (IF (Contains(text_lower, "mp") \/ Contains(text_lower, "megapixel"))
         /\ MpGroup(text_lower) # ""
     THEN <<"Resolution " \o MpGroup(text_lower) \o "MP">> ELSE << >>)
    \o (IF AnyWordIn(text_lower, {"4k", "uhd"})
        THEN <<"Resolution 4K">> ELSE << >>)
    \o (IF AnyWordIn(text_lower, {"night", "nocturne", "infrared", "ir"})
        THEN <<"Vision nocturne">> ELSE << >>)
    \o (IF AnyWordIn(text_lower, {"wifi", "wireless", "sans fil"})
        THEN <<"WiFi">> ELSE << >>)
    \o (IF AnyWordIn(text_lower, {"poe", "ethernet"})
        THEN <<"PoE">> ELSE << >>)
    \o (IF AnyWordIn(text_lower, {"ip67", "ip66", "waterproof", "etanche"})
        THEN <<"Resistant intemperies">> ELSE << >>)

\* the accessories _extract_info_from_snippet gives a category
SnippetAccessories(category) ==
    CASE category = "Camera IP" ->
            <<"Support de montage", "Cable reseau", "Adaptateur PoE",
              "Guide d'installation">>
      [] category = "Camera Analogique" ->
            <<"Support de montage", "Cable coaxial", "Adaptateur secteur",
              "Manuel technique">>
      [] category = "Accessoire" ->
            <<"Documentation technique", "Garantie constructeur">>
      [] OTHER ->
            <<"Manuel d'utilisation", "Kit de montage", "Support technique">>

\* the filters _extract_info_from_snippet builds
SnippetFilters(category, text_lower) ==
    <<category, "HIKVISION", "Securite", "Professionnel">>
    \o (IF Contains(text_lower, "ip") THEN <<"IP">> ELSE << >>)
    \o (IF Contains(text_lower, "hd") \/ Contains(text_lower, "4k")
        THEN <<"Haute Definition">> ELSE << >>)
    \o (IF \/ Contains(text_lower, "exterieur")
           \/ Contains(text_lower, "outdoor")
           \/ Contains(text_lower, "ip67")
        THEN <<"Exterieur">> ELSE << >>)
    \o (IF Contains(text_lower, "interieur") \/ Contains(text_lower, "indoor")
        THEN <<"Interieur">> ELSE << >>)
    \o (IF Contains(text_lower, "wifi") THEN <<"Sans fil">> ELSE << >>)

\* min(a, b)
Min(a, b) == IF a <= b THEN a ELSE b

\* the confidence _extract_info_from_snippet computes, without its cap
SnippetScoreUncapped(sku, name, description, specs, url) ==
    (IF name # "" /\ Contains(Lower(name), Lower(sku)) THEN 30 ELSE 0)
    + (IF Len(description) > 50 THEN 20 ELSE 0)
    + (IF Len(specs) > 0 THEN 20 ELSE 0)
    + (IF AnySiteIn(url) THEN 30 ELSE 0)

\* the confidence _extract_info_from_snippet computes
SnippetScore(sku, name, description, specs, url) ==
    Min(SnippetScoreUncapped(sku, name, description, specs, url), 100)

\* _extract_info_from_snippet(sku, title, snippet, url)
ExtractInfoFromSnippet(sku, title, snippet, url) ==
    LET text_lower == Lower(title \o " " \o snippet)
        name == SnippetName(sku, title)
        category == SnippetCategory(text_lower)
        description == IF snippet # "" THEN Prefix(snippet, 200)
                       ELSE "Produit de securite professionnel " \o sku
        specs == SnippetSpecs(text_lower)
    IN  [sku |-> sku,
         name |-> name,
         category |-> category,
         description |-> description,
         specifications |-> IF specs # << >> THEN Join(specs, ", ")
                            ELSE "Specifications techniques avancees",
         accessories |-> SnippetAccessories(category),
         filters |-> SnippetFilters(category, text_lower),
         source_url |-> url,
         confidence_score |-> SnippetScore(sku, name, description, specs, url)]

(***************************************************************************)
(* _get_detailed_info_from_url: extraction from a fetched page.  A page is *)
(* one line of text.                                                       *)
(***************************************************************************)

\* the capture group of the leftmost match in s of
\*     open [^>]* > ( cls+ ) close     (withAttrs)
\*     open ( cls+ ) close             (otherwise)
\* taken without regard to case, the group being lo to hi characters long:
\* <<group>>, or << >> when nothing matches.  open and close are in lower
\* case; close starts with a character outside cls, so the group is the whole
\* run of cls characters.
Capture(s, open, withAttrs, cls, close, lo, hi) ==
    LET ls == Lower(s)
        Start(i) == IF withAttrs
                    THEN (IF IndexFrom(s, ">", i + Len(open)) = 0 THEN 0
                          ELSE IndexFrom(s, ">", i + Len(open)) + 1)
                    ELSE i + Len(open)
        Length(i) == RunEnd(s, Start(i), cls) - Start(i) + 1
        OkAt(i) == /\ MatchesAt(ls, open, i)
                   /\ Start(i) # 0
                   /\ Length(i) >= lo
                   /\ Length(i) <= hi
                   /\ MatchesAt(ls, close, Start(i) + Length(i))
        hits == {i \in 1..Len(s) : OkAt(i)}
        first == CHOOSE i \in hits : \A j \in hits : i <= j
    IN  IF hits = {} THEN << >>
        ELSE <<SubSeq(s, Start(first), Start(first) + Length(first) - 1)>>

\* the capture group of the leftmost match in s of
\*     description["']:\s*["']([^"']{50,200})["']
\* without regard to case: <<group>> or << >>
CaptureJsonDescription(s) ==
    LET ls == Lower(s)
        Quote(i) == RunEnd(s, i + 13, "space") + 1
        Length(i) == RunEnd(s, Quote(i) + 1, "not quote") - Quote(i)
        OkAt(i) == /\ MatchesAt(ls, "description", i)
                   /\ CharAt(s, i + 11) \in {"\"", "'"}
                   /\ CharAt(s, i + 12) = ":"
                   /\ CharAt(s, Quote(i)) \in {"\"", "'"}
                   /\ Length(i) >= 50
                   /\ Length(i) <= 200
                   /\ CharAt(s, Quote(i) + Length(i) + 1) \in {"\"", "'"}
        hits == {i \in 1..Len(s) : OkAt(i)}
        first == CHOOSE i \in hits : \A j \in hits : i <= j
    IN  IF hits = {} THEN << >>
        ELSE <<SubSeq(s, Quote(first) + 1, Quote(first) + Length(first))>>

\* the name: the first of the three title patterns that matches gives it
DetailedName(page_content, sku) ==
    LET at == IndexFrom(Lower(page_content), Lower(sku), 1)
        h1 == Capture(page_content, "<h1", TRUE, "not <", "</h1>", 1, Len(page_content))
        title == Capture(page_content, "<title>", FALSE, "not <", "</title>", 1,
                         Len(page_content))
        found == IF at # 0 THEN Prefix(Strip(Suffix(page_content, at)), 100)
                 ELSE IF h1 # << >> THEN Prefix(Strip(h1[1]), 100)
                 ELSE IF title # << >> THEN Prefix(Strip(title[1]), 100)
                 ELSE ""
    IN  IF found # "" THEN found ELSE "Produit HIKVISION " \o sku

RECURSIVE DigitGroups(_, _, _)
\* re.findall(r'(\d+)\s*word', t) from position from on: the digit groups
DigitGroups(t, word, from) ==
    LET hits == {i \in from..Len(t) : DigitsThenWordAt(t, word, i)}
        first == CHOOSE i \in hits : \A j \in hits : i <= j
        wordAt == RunEnd(t, RunEnd(t, first, "digit") + 1, "space") + 1
    IN  IF hits = {} THEN << >>
        ELSE <<SubSeq(t, first, RunEnd(t, first, "digit"))>>
             \o DigitGroups(t, word, wordAt + Len(word))

\* {f"{match}MP" for match in groups}
MpLabels(groups) == {groups[k] \o "MP" : k \in 1..Len(groups)}

\* set(specs): what the ten spec patterns find in the page
DetailedSpecSet(page_content) ==
    LET ls == Lower(page_content)
    IN  MpLabels(DigitGroups(ls, "mp", 1))
        \cup MpLabels(DigitGroups(ls, "megapixel", 1))
        \cup (IF AnyWordIn(ls, {"4k", "uhd"}) THEN {"4K"} ELSE {})
        \cup (IF Contains(ls, "poe") THEN {"PoE\\+?"} ELSE {})
        \cup (IF AnyWordIn(ls, {"wifi", "wireless"}) THEN {"WiFi"} ELSE {})
        \cup (IF AnyWordIn(ls, {"ir", "infrared", "night vision"})
              THEN {"IR"} ELSE {})
        \cup (IF AnyWordIn(ls, {"ip66", "ip67"}) THEN {"IP6[67]"} ELSE {})
        \cup (IF AnyWordIn(ls, {"h.264", "h.265"}) THEN {"H\\.26[45]"} ELSE {})
        \cup (IF Contains(ls, "colorvu") THEN {"ColorVu"} ELSE {})
        \cup (IF Contains(ls, "acusense") THEN {"AcuSense"} ELSE {})

\* the orders in which a set can be iterated
Orders(S) ==
    {q \in [1..Cardinality(S) -> S] : \A x \in S : \E k \in 1..Cardinality(S) : q[k] = x}

\* ', '.join(set(specs)), in each order the set can be iterated in
DetailedSpecifications(page_content) ==
    IF DetailedSpecSet(page_content) = {}
    THEN {"Specifications techniques avancees"}
    ELSE {Join(q, ", ") : q \in Orders(DetailedSpecSet(page_content))}

\* the description: the first of the three patterns that matches gives it
DetailedDescription(page_content, sku) ==
    LET meta == Capture(page_content, "<meta name=\"description\" content=\"",
                        FALSE, "not \"", "\"", 1, Len(page_content))
        para == Capture(page_content, "<p", TRUE, "not <", "</p>", 50, 200)
        json == CaptureJsonDescription(page_content)
        found == IF meta # << >> THEN Prefix(Strip(meta[1]), 200)
                 ELSE IF para # << >> THEN Prefix(Strip(para[1]), 200)
                 ELSE IF json # << >> THEN Prefix(Strip(json[1]), 200)
                 ELSE ""
    IN  IF found # "" THEN found
        ELSE "Produit de securite professionnel HIKVISION " \o sku

\* the category read in the page
DetailedCategory(page_content) ==
    LET content_lower == Lower(page_content)
    IN  IF Contains(content_lower, "camera")
        THEN IF Contains(content_lower, "ip") THEN "Camera IP"
             ELSE IF Contains(content_lower, "turbo") \/ Contains(content_lower, "hd")
                  THEN "Camera Analogique"
                  ELSE "Camera"
        ELSE IF Contains(content_lower, "nvr") THEN "Enregistreur"
        ELSE "Securite"

\* What self.browser_tool does when called: it returns a page ("" included)
\* or raises.
PageFetched(content) == [raises |-> FALSE, content |-> content]
FetchRaises == [raises |-> TRUE, content |-> ""]

\* the confidence of a record read from a fetched page, in hundredths
DetailedConfidence == 95

\* _get_detailed_info_from_url(url, sku) once the browser tool has answered:
\* the records it can return, {} standing for None.  (Without a browser tool
\* it returns None before any call.)
GetDetailedInfoFromUrl(url, sku, fetched) ==
    IF fetched.raises \/ fetched.content = "" THEN {}
    ELSE {[sku |-> sku,
           name |-> DetailedName(fetched.content, sku),
           category |-> DetailedCategory(fetched.content),
           description |-> DetailedDescription(fetched.content, sku),
           specifications |-> specifications,
           accessories |-> <<"Support de montage", "Documentation technique",
                             "Garantie constructeur", "Support HIKVISION">>,
           filters |-> <<DetailedCategory(fetched.content), "HIKVISION",
                         "Professionnel", "Haute qualite">>,
           source_url |-> url,
           confidence_score |-> DetailedConfidence]
          : specifications \in DetailedSpecifications(fetched.content)}

(***************************************************************************)
(* _generate_fallback_info and _simulate_search                            *)
(***************************************************************************)

\* the confidence of a record generated from the SKU, in hundredths
FallbackConfidence == 70

\* _generate_fallback_info(sku)
GenerateFallbackInfo(sku) ==
    LET sku_upper == Upper(sku)
        Info(name, category, description, specifications, accessories, filters) ==
            [sku |-> sku, name |-> name, category |-> category,
             description |-> description, specifications |-> specifications,
             accessories |-> accessories, filters |-> filters,
             source_url |-> "", confidence_score |-> FallbackConfidence]
    IN  IF StartsWith(sku_upper, "DS-2CD") THEN
            Info("Camera IP HIKVISION " \o sku,
                 "Camera IP",
                 "Camera de surveillance IP haute performance " \o sku
                    \o " avec technologie avancee HIKVISION",
                 "Resolution haute definition, Vision nocturne infrarouge, PoE, Resistant intemperies IP67",
                 <<"Support de montage", "Cable reseau", "Adaptateur PoE",
                   "Guide d'installation">>,
                 <<"Camera", "IP", "HIKVISION", "Surveillance", "Exterieur",
                   "Vision nocturne">>)
        ELSE IF StartsWith(sku_upper, "DS-2CE") THEN
            Info("Camera Turbo HD HIKVISION " \o sku,
                 "Camera Analogique",
                 "Camera de surveillance Turbo HD " \o sku
                    \o " avec technologie ColorVu pour images couleur 24h/24",
                 "Resolution 4K, Vision nocturne ColorVu, Resistant intemperies IP67, Signal analogique HD",
                 <<"Support de montage", "Cable coaxial", "Adaptateur secteur",
                   "Manuel technique">>,
                 <<"Camera", "Turbo HD", "HIKVISION", "Analogique", "4K", "ColorVu">>)
        ELSE IF StartsWith(sku_upper, "DS-1") THEN
            Info("Accessoire HIKVISION " \o sku,
                 "Accessoire",
                 "Accessoire de securite HIKVISION " \o sku
                    \o " pour systemes de surveillance professionnels",
                 "Compatible systemes HIKVISION, Installation facile, Qualite professionnelle",
                 <<"Documentation technique", "Kit de fixation">>,
                 <<"Accessoire", "HIKVISION", "Professionnel">>)
        ELSE IF AnyWordIn(sku_upper, {"ADS", "AJ", "CPK"}) THEN
            Info("Composant HIKVISION " \o sku,
                 "Composant",
                 "Composant electronique HIKVISION " \o sku
                    \o " pour systemes de securite",
                 "Composant certifie HIKVISION, Haute fiabilite, Installation professionnelle",
                 <<"Documentation technique", "Garantie constructeur">>,
                 <<"Composant", "HIKVISION", "Electronique">>)
        ELSE
            Info("Produit HIKVISION " \o sku,
                 "Securite",
                 "Equipement de securite professionnel HIKVISION " \o sku,
                 "Technologie HIKVISION avancee, Haute fiabilite, Support technique inclus",
                 <<"Manuel d'utilisation", "Support technique", "Garantie">>,
                 <<"HIKVISION", "Securite", "Professionnel">>)

\* one search result: the dict with keys url, title and snippet
SearchResult(url, title, snippet) == [url |-> url, title |-> title, snippet |-> snippet]

\* _simulate_search(query)
SimulateSearch(query) ==
    IF Contains(Lower(query), "hikvision") THEN
        <<SearchResult("https://www.hikvision.com/en/products/ip-cameras/",
                       "IP Cameras - HIKVISION",
                       "Professional IP cameras with advanced features for surveillance")>>
    ELSE IF Contains(Lower(query), "camera") THEN
        <<SearchResult("https://www.ubitech.fr/cameras-ip",
                       "Cameras IP professionnelles",
                       "Large gamme de cameras de surveillance IP haute definition")>>
    ELSE << >>

\* the three queries search_product_info issues, in order
SearchQueries(sku) ==
    <<sku \o " hikvision specifications",
      sku \o " camera surveillance",
      sku \o " datasheet technical">>

(***************************************************************************)
(* calculate_prices                                                        *)
(***************************************************************************)

\* Decimal.quantize(Decimal('0.01'), rounding=ROUND_HALF_UP) of the exact
\* quotient n / d of cents (d > 0): ties go away from zero.
QuantizeHalfUp(n, d) ==
    IF n >= 0 THEN (2 * n + d) \div (2 * d)
              ELSE 0 - ((2 * (0 - n) + d) \div (2 * d))

\* What the argument of calculate_prices can be: a number of whole cents,
\* a float nan or inf, or a value Decimal(str(.)) cannot convert.
NumArg(c) == [kind |-> "num", cents |-> c]
NanArg == [kind |-> "nan", cents |-> 0]
InfArg == [kind |-> "inf", cents |-> 0]
TextArg == [kind |-> "text", cents |-> 0]

\* The dict calculate_prices returns, prices in cents; nan: both floats are nan.
PriceSet(c, s) == [cost_price |-> c, selling_price |-> s, nan |-> FALSE]
NanPriceSet == [cost_price |-> 0, selling_price |-> 0, nan |-> TRUE]
ZeroPriceSet == PriceSet(0, 0)

\* calculate_prices with the selling price taken from the rounded cost price.
calculate_prices_rounded_cost(purchase_price) ==
    CASE purchase_price.kind = "num" ->
            LET cost == QuantizeHalfUp(purchase_price.cents * 116, 100)
            IN  PriceSet(cost, QuantizeHalfUp(cost * 100, 65))
      [] purchase_price.kind = "nan" -> NanPriceSet
      [] OTHER -> ZeroPriceSet

calculate_prices(purchase_price) ==
    CASE purchase_price.kind = "num" ->
            \* both quotients are formed first, then both are quantized
            PriceSet(QuantizeHalfUp(purchase_price.cents * 116, 100),
                     QuantizeHalfUp(purchase_price.cents * 116, 65))
      [] purchase_price.kind = "nan" ->
            \* Decimal('NaN') passes through *, / and quantize
            NanPriceSet
      [] OTHER ->
            \* InvalidOperation (conversion, or quantize of Infinity) is caught
            ZeroPriceSet

(***************************************************************************)
(* generate_descriptions                                                   *)
(***************************************************************************)

RECURSIVE NatToStr(_)
\* the decimal digits of a natural number
NatToStr(n) ==
    IF n < 10 THEN CharAt(Digits, n + 1)
    ELSE NatToStr(n \div 10) \o CharAt(Digits, (n % 10) + 1)

\* f"{x:.2f}" of a price held in cents
FormatPrice(cents, nan) ==
    LET a == IF cents < 0 THEN -cents ELSE cents
        frac == a % 100
    IN  IF nan THEN "nan"
        ELSE (IF cents < 0 THEN "-" ELSE "")
             \o NatToStr(a \div 100) \o "."
             \o (IF frac < 10 THEN "0" ELSE "") \o NatToStr(frac)

\* the fixed tail of the e-commerce template
EcommerceBoilerplate ==
    "\n\nScenarios d'utilisation:\n"
    \o "* Surveillance residentielle - Protection de votre domicile 24h/24 avec detection intelligente\n"
    \o "* Securite commerciale - Surveillance de locaux professionnels, entrepots et zones sensibles\n"
    \o "* Monitoring industriel - Controle de sites de production, chaines logistiques et equipements\n"
    \o "* Surveillance perimetrique - Protection d'espaces exterieurs, parkings et acces securises\n"
    \o "* Controle d'acces - Gestion des entrees et sorties avec reconnaissance faciale avancee\n"
    \o "* Telesurveillance - Monitoring a distance avec alertes temps reel et enregistrement cloud\n"
    \o "\nCompatible avec les systemes HIKVISION et solutions de securite tierces.\n"
    \o "Installation et configuration par nos techniciens certifies HIKVISION.\n"
    \o "Support technique 24/7 et garantie constructeur inclus.\n"
    \o "Formation utilisateur et maintenance preventive disponibles.\n        "

\* the euro sign of the quote template is written E
generate_descriptions(sku, product_info, prices) ==
    [management_label |-> sku \o " - " \o product_info.name,
     quote_description |->
        Strip("\n" \o product_info.name
              \o "\n\nReference: " \o sku
              \o "\nCategorie: " \o product_info.category
              \o "\n\nCaracteristiques techniques:\n" \o product_info.specifications
              \o "\n\nDescription:\n" \o product_info.description
              \o "\n\nAccessoires inclus: " \o Join(product_info.accessories, ", ")
              \o "\n\nPrix de vente: "
              \o FormatPrice(prices.selling_price, prices.nan) \o "E HT\n        "),
     ecommerce_description |->
        Strip("\n" \o product_info.description
              \o "\n\nSpecifications techniques:\n" \o product_info.specifications
              \o "\n\nAccessoires inclus:\n" \o Join(product_info.accessories, ", ")
              \o EcommerceBoilerplate)]

(***************************************************************************)
(* evaluate_quality.  Scores are in tenths of a point: the bands add whole *)
(* points and the confidence term, confidence_score * 10 points, is the    *)
(* confidence in hundredths read as tenths of a point.                     *)
(***************************************************************************)

NamePoints(sku, product_info) ==
    IF Len(product_info.name) > 15 /\ Contains(product_info.name, sku) THEN 20
    ELSE IF Len(product_info.name) > 10 THEN 15
    ELSE IF Len(product_info.name) > 5 THEN 10
    ELSE 0

\* the description's points with the two middle bands exchanged
DescriptionPointsExchanged(product_info) ==
    IF Len(product_info.description) > 80 THEN 20
    ELSE IF Len(product_info.description) > 50 THEN 12
    ELSE IF Len(product_info.description) > 30 THEN 15
    ELSE IF Len(product_info.description) > 15 THEN 8
    ELSE 0

DescriptionPoints(product_info) ==
    IF Len(product_info.description) > 80 THEN 20
    ELSE IF Len(product_info.description) > 50 THEN 15
    ELSE IF Len(product_info.description) > 30 THEN 12
    ELSE IF Len(product_info.description) > 15 THEN 8
    ELSE 0

SpecificationsPoints(product_info) ==
    IF Len(product_info.specifications) > 40 THEN 20
    ELSE IF Len(product_info.specifications) > 25 THEN 15
    ELSE IF Len(product_info.specifications) > 15 THEN 12
    ELSE IF Len(product_info.specifications) > 5 THEN 8
    ELSE 0

AccessoriesPoints(product_info) ==
    IF Len(product_info.accessories) >= 3 THEN 15
    ELSE IF Len(product_info.accessories) >= 2 THEN 12
    ELSE IF Len(product_info.accessories) >= 1 THEN 8
    ELSE 0

LabelPoints(descriptions) ==
    IF Len(descriptions.management_label) > 20 THEN 10
    ELSE IF Len(descriptions.management_label) > 10 THEN 7
    ELSE 0

EcommercePoints(descriptions) ==
    IF Len(descriptions.ecommerce_description) > 400 THEN 15
    ELSE IF Len(descriptions.ecommerce_description) > 250 THEN 12
    ELSE IF Len(descriptions.ecommerce_description) > 150 THEN 8
    ELSE 0

\* score after the last "score +=", in tenths of a point
QualityScoreUncapped(sku, product_info, descriptions) ==
    10 * (NamePoints(sku, product_info) + DescriptionPoints(product_info)
          + SpecificationsPoints(product_info) + AccessoriesPoints(product_info)
          + LabelPoints(descriptions) + EcommercePoints(descriptions))
    + product_info.confidence_score

\* min(score, 100) and its removal
CapScoreNoCap(score) == score
CapScore(score) == Min(score, 1000)

evaluate_quality(sku, product_info, descriptions) ==
    CapScore(QualityScoreUncapped(sku, product_info, descriptions))

(***************************************************************************)
(* search_product_info, step by step.  The list a search returns is read   *)
(* one result at a time: the loop body runs on results[0], results[1] and  *)
(* results[2] as far as the list goes, and nothing else of the list is     *)
(* read.  The handler of line 156 is not modelled: with a sku that is a    *)
(* string, nothing outside the inner try raises.                           *)
(***************************************************************************)

\* calculate_prices is not under study
PricesIdle ==
    /\ priceArg = TextArg
    /\ priceRes = << >>

\* evaluate_quality is not under study
NoDescriptions ==
    [management_label |-> "", quote_description |-> "", ecommerce_description |-> ""]
QualityArg(sku, product_info, descriptions) ==
    [sku |-> sku, product_info |-> product_info, descriptions |-> descriptions]
QualityIdle ==
    /\ qualArg = QualityArg("", ProductInfo(""), NoDescriptions)
    /\ qualRes = << >>

\* process_excel_file is not under study
UnreadableFile == [readable |-> FALSE, columns |-> {}, rows |-> << >>]
BatchNotStarted ==
    /\ bpc = "idle"
    /\ df = << >>
    /\ idx = 0
    /\ all_results = << >>
    /\ processed_count = 0
    /\ valid_count = 0
    /\ progress = << >>
    /\ outFile = << >>
    /\ outcome = << >>
    /\ caught = {}
    /\ active_tasks = << >>
BatchIdle ==
    /\ inputFile = UnreadableFile
    /\ progress_callback = FALSE
    /\ BatchNotStarted

\* the SKUs asked for
SKUs == {"DS-2CD1234", "AJ7"}

\* What an injected search tool can put in a result for sku: the result of
\* real_search_tool (app.py), and results with a title that starts with a
\* separator, without the SKU, with an empty or a keyword-rich snippet, from
\* a priority site, from one spelled in capitals, and from another site.
RealSearchResult(sku) ==
    SearchResult("https://www.hikvision.com/products/" \o Lower(sku),
                 "HIKVISION " \o sku \o " - Professional Security",
                 "Professional security product " \o sku
                    \o " with advanced features and high reliability.")

ResultPool(sku) ==
    {RealSearchResult(sku),
     SearchResult("https://www.hikvision.com/products/" \o Lower(sku),
                  "| " \o sku \o " datasheet", ""),
     SearchResult("https://www.hikvision.com/products/" \o Lower(sku),
                  "HIKVISION " \o sku \o " - Professional Security",
                  "Network camera 4MP with night vision for professional use"),
     SearchResult("https://example.org/p", "IP Cameras", ""),
     SearchResult("https://WWW.HIKVISION.COM/p", "IP Cameras",
                  "Network camera 4MP with night vision for professional use"),
     SearchResult("https://example.org/p", "IP Cameras",
                  "Network camera 4MP with night vision for professional use")}

\* the page real_browser_tool (app.py) returns
RealPage ==
    "<html><head><title>Product Page</title></head><body><h1>Professional Product</h1><p>High-quality security equipment with advanced specifications.</p></body></html>"

\* What an injected browser tool can do when called for sku.
FetchOutcomes(sku) ==
    {FetchRaises, PageFetched(""), PageFetched(RealPage),
     PageFetched("Datasheet " \o sku \o " network camera 4MP PoE")}

\* priority_bonus of the loop body, in hundredths
PriorityBonus(url) == IF AnySiteIn(Lower(url)) THEN 30 ELSE 0

\* info of the loop body: the candidate, with its priority bonus added
Candidate(sku, result) ==
    LET info == ExtractInfoFromSnippet(sku, result.title, result.snippet, result.url)
    IN  [info EXCEPT !.confidence_score = @ + PriorityBonus(result.url)]

\* the results the loop body can be given for sku
ResultsFor(sku) ==
    ResultPool(sku)
        \cup UNION {{SimulateSearch(SearchQueries(sku)[q])[k] :
                        k \in 1..Len(SimulateSearch(SearchQueries(sku)[q]))} :
                    q \in 1..3}

\* The functions of the SKU that the steps use, tabulated once.
SimulatedTable == [sku \in SKUs |-> [q \in 1..3 |-> SimulateSearch(SearchQueries(sku)[q])]]
BonusTable == [sku \in SKUs |-> [r \in ResultsFor(sku) |-> PriorityBonus(r.url)]]
CandidateTable == [sku \in SKUs |-> [r \in ResultsFor(sku) |-> Candidate(sku, r)]]
DetailedTable ==
    [sku \in SKUs |-> [r \in ResultsFor(sku) |-> [f \in FetchOutcomes(sku) |->
        GetDetailedInfoFromUrl(r.url, sku, f)]]]
FallbackTable == [sku \in SKUs |-> GenerateFallbackInfo(sku)]

\* the loop body navigates to the result's page
Navigates(sku, result) ==
    BonusTable[sku][result] > 0 /\ CandidateTable[sku][result].confidence_score > 70

\* the record is not cached
CacheStoreNothing(cache, sku, info) == cache

\* self.search_cache[sku] = best_info
CacheStore(cache, sku, info) == (sku :> info) @@ cache

\* The frame of a call of search_product_info: where it is, its argument,
\* its locals, and the counts of the tool calls it made.
Frame ==
    [rpc |-> rpc, rsku |-> rsku, qi |-> qi, ri |-> ri, best_info |-> best_info,
     best_score |-> best_score, ret |-> ret, searchCalls |-> searchCalls,
     searchRaises |-> searchRaises, fetchCalls |-> fetchCalls]

\* the call goes on in frame g
FrameBecomes(g) ==
    /\ rpc' = g.rpc
    /\ rsku' = g.rsku
    /\ qi' = g.qi
    /\ ri' = g.ri
    /\ best_info' = g.best_info
    /\ best_score' = g.best_score
    /\ ret' = g.ret
    /\ searchCalls' = g.searchCalls
    /\ searchRaises' = g.searchRaises
    /\ fetchCalls' = g.fetchCalls

\* no call is running
NoFrame ==
    [rpc |-> "idle", rsku |-> "", qi |-> 0, ri |-> 0, best_info |-> ProductInfo(""),
     best_score |-> 0, ret |-> << >>, searchCalls |-> 0, searchRaises |-> 0,
     fetchCalls |-> 0]

\* the call is in frame g
FrameIs(g) ==
    /\ rpc = g.rpc
    /\ rsku = g.rsku
    /\ qi = g.qi
    /\ ri = g.ri
    /\ best_info = g.best_info
    /\ best_score = g.best_score
    /\ ret = g.ret
    /\ searchCalls = g.searchCalls
    /\ searchRaises = g.searchRaises
    /\ fetchCalls = g.fetchCalls

ResolverInit ==
    /\ search_cache = << >>
    /\ FrameIs(NoFrame)
    /\ firstRet = << >>
    /\ repeatCall = FALSE

\* lines 78-80: the sku is in the cache, its record is returned at once
CachedFrame(sku, info) ==
    [NoFrame EXCEPT !.rpc = "returned", !.rsku = sku, !.ret = <<info>>]

\* lines 82-90: best_info = ProductInfo(sku=sku), best_score = 0, first query
FirstFrame(sku) ==
    [NoFrame EXCEPT !.rpc = "query", !.rsku = sku, !.qi = 1,
                    !.best_info = ProductInfo(sku)]

\* search_product_info(sku) is entered
EnterSearchProductInfo(sku) ==
    /\ FrameBecomes(IF sku \in DOMAIN search_cache
                    THEN CachedFrame(sku, search_cache[sku])
                    ELSE FirstFrame(sku))
    /\ repeatCall' = (sku \in DOMAIN firstRet)
    /\ UNCHANGED <<search_cache, firstRet>>

\* a caller calls search_product_info
CallSearchProductInfo ==
    /\ rpc \in {"idle", "returned"}
    /\ \E sku \in SKUs : EnterSearchProductInfo(sku)
    /\ UNCHANGED outerVars

\* an exception of the body of the loop over queries leaves the call
SearchErrorPropagates == FALSE

\* the try of line 96 catches what the body of the loop over queries raises
SearchErrorCaught == TRUE

\* results = self.search_tool(query): the tool raises (the handler of line
\* 143 goes on to the next query), returns nothing, or returns results
SearchWithToolSteps(f) ==
    LET called == [f EXCEPT !.searchCalls = @ + 1]
    IN  {IF SearchErrorCaught
         THEN [called EXCEPT !.searchRaises = @ + 1, !.qi = @ + 1]
         ELSE [called EXCEPT !.searchRaises = @ + 1, !.rpc = "raised"],
         [called EXCEPT !.qi = @ + 1],
         [called EXCEPT !.rpc = "results", !.ri = 0]}

\* results = self._simulate_search(query)
SearchSimulatedStep(f) ==
    IF SimulatedTable[f.rsku][f.qi] = << >>
    THEN [f EXCEPT !.qi = @ + 1]
    ELSE [f EXCEPT !.rpc = "results", !.ri = 0]

\* lines 124-126: the candidate is compared with the best one
AfterCandidate(f, info) ==
    IF info.confidence_score > f.best_score
    THEN [f EXCEPT !.best_info = info, !.best_score = info.confidence_score]
    ELSE f

\* the page's record replaces the best one whatever its confidence
AfterDetailedAlways(f, detailed) ==
    IF detailed # {}
    THEN {[f EXCEPT !.best_info = d, !.best_score = d.confidence_score] :
            d \in detailed}
    ELSE {f}

\* lines 131-137: the page's record (detailed, a set: empty for None) is
\* compared with the best one
AfterDetailed(f, detailed) ==
    IF detailed # {} /\ (\A d \in detailed : d.confidence_score > f.best_score)
    THEN {[f EXCEPT !.best_info = d, !.best_score = d.confidence_score] :
            d \in detailed}
    ELSE {f}

\* the next result of the list, as far as the loop reads it (st: a search
\* tool is set)
NextResults(f, st) ==
    IF f.ri >= 3 THEN {}
    ELSE IF st THEN ResultPool(f.rsku)
    ELSE IF f.ri < Len(SimulatedTable[f.rsku][f.qi])
         THEN {SimulatedTable[f.rsku][f.qi][f.ri + 1]}
    ELSE {}

\* one turn of the loop over results[:3] for a result that is not navigated
\* to (bt: a browser tool is set)
AnalyseResultSteps(f, st, bt) ==
    {[AfterCandidate(f, CandidateTable[f.rsku][result]) EXCEPT !.ri = @ + 1] :
        result \in {r \in NextResults(f, st) : ~Navigates(f.rsku, r) \/ ~bt}}

\* one turn of the loop over results[:3] that calls the browser tool
AnalyseResultAndNavigateSteps(f, st, bt) ==
    UNION {UNION {{[g EXCEPT !.ri = @ + 1, !.fetchCalls = @ + 1] :
                        g \in AfterDetailed(
                                AfterCandidate(f, CandidateTable[f.rsku][result]),
                                DetailedTable[f.rsku][result][fetched])} :
                    fetched \in FetchOutcomes(f.rsku)} :
            result \in {r \in NextResults(f, st) : Navigates(f.rsku, r) /\ bt}}

\* the list is read through, or three results of it were
ResultsAreRead(f, st) ==
    /\ f.ri >= 1
    /\ f.ri >= 3 \/ st \/ f.ri >= Len(SimulatedTable[f.rsku][f.qi])

\* lines 140-141: stop on a good result, else go on to the next query
EndOfResultsStep(f) ==
    IF f.best_score > 80
    THEN [f EXCEPT !.rpc = "after_loop"]
    ELSE [f EXCEPT !.rpc = "query", !.qi = @ + 1]

\* the loop over queries is left
LoopIsOver(f) == f.rpc = "after_loop" \/ (f.rpc = "query" /\ f.qi > 3)

\* the best record, whatever its confidence
BestRecord(f) == f.best_info

\* lines 148-149: the generated record replaces a best one below 0.5
ChosenRecord(f) ==
    IF f.best_score < 50 THEN FallbackTable[f.rsku] ELSE f.best_info

\* line 154: return best_info
ReturnStep(f) ==
    [f EXCEPT !.best_info = ChosenRecord(f), !.ret = <<ChosenRecord(f)>>,
              !.rpc = "returned"]

SearchWithTool ==
    /\ rpc = "query" /\ qi <= 3 /\ search_tool
    /\ \E g \in SearchWithToolSteps(Frame) : FrameBecomes(g)
    /\ UNCHANGED <<outerVars, search_cache, firstRet, repeatCall>>

SearchSimulated ==
    /\ rpc = "query" /\ qi <= 3 /\ ~search_tool
    /\ FrameBecomes(SearchSimulatedStep(Frame))
    /\ UNCHANGED <<outerVars, search_cache, firstRet, repeatCall>>

AnalyseResult ==
    /\ rpc = "results"
    /\ \E g \in AnalyseResultSteps(Frame, search_tool, browser_tool) : FrameBecomes(g)
    /\ UNCHANGED <<outerVars, search_cache, firstRet, repeatCall>>

AnalyseResultAndNavigate ==
    /\ rpc = "results"
    /\ \E g \in AnalyseResultAndNavigateSteps(Frame, search_tool, browser_tool) :
          FrameBecomes(g)
    /\ UNCHANGED <<outerVars, search_cache, firstRet, repeatCall>>

EndOfResults ==
    /\ rpc = "results"
    /\ ResultsAreRead(Frame, search_tool)
    /\ FrameBecomes(EndOfResultsStep(Frame))
    /\ UNCHANGED <<outerVars, search_cache, firstRet, repeatCall>>

\* after the loop: fall back below 0.5, cache the record and return it
ReturnBestInfo ==
    /\ LoopIsOver(Frame)
    /\ FrameBecomes(ReturnStep(Frame))
    /\ search_cache' = CacheStore(search_cache, rsku, ChosenRecord(Frame))
    /\ firstRet' = IF rsku \in DOMAIN firstRet THEN firstRet
                   ELSE (rsku :> ChosenRecord(Frame)) @@ firstRet
    /\ UNCHANGED <<outerVars, repeatCall>>

ResolverStep ==
    \/ SearchWithTool
    \/ SearchSimulated
    \/ AnalyseResult
    \/ AnalyseResultAndNavigate
    \/ EndOfResults
    \/ ReturnBestInfo

InitResolve ==
    /\ PricesIdle
    /\ QualityIdle
    /\ BatchIdle
    /\ search_tool \in BOOLEAN
    /\ browser_tool \in BOOLEAN
    /\ ResolverInit

NextResolve == CallSearchProductInfo \/ ResolverStep

SpecResolve == InitResolve /\ [][NextResolve]_vars

\* C5: whatever the search and the browser tool do, search_product_info
\* calls the search tool at most three times, no exception leaves it, it can
\* always take a next step until it has returned, and what it returns is a
\* record for its sku; when all three searches raised, that record is the
\* one generated from the SKU.
C5_ResolverAlwaysReturns ==
    /\ searchCalls <= 3
    /\ rpc # "raised"
    /\ rpc \in {"query", "results", "after_loop"} =>
            /\ qi \in 1..4 /\ ri \in 0..3
            /\ ENABLED ResolverStep
    /\ rpc = "returned" =>
            /\ Len(ret) = 1
            /\ ret[1].sku = rsku
            /\ searchRaises = 3 => ret[1] = GenerateFallbackInfo(rsku)

\* C5 witness: a call returned the generated record after three searches
\* that all raised
C5_Witness ==
    /\ rpc = "returned"
    /\ searchCalls = 3
    /\ searchRaises = 3
    /\ ret[1].confidence_score = FallbackConfidence

\* C6: a call for a sku that was resolved before returns the record the
\* first call returned and calls neither tool.
C6_SecondCallFromCache ==
    repeatCall =>
        /\ rpc = "returned"
        /\ ret = <<firstRet[rsku]>>
        /\ searchCalls = 0
        /\ fetchCalls = 0

\* C6 witness: a second call returned a record that the first call had read
\* from a fetched page
C6_Witness ==
    /\ rpc = "returned"
    /\ repeatCall
    /\ search_tool /\ browser_tool
    /\ ret[1].confidence_score = DetailedConfidence

\* C7: the record search_product_info returns for a non-empty sku has a
\* non-empty name.
C7_NameNeverEmpty ==
    rpc = "returned" /\ rsku # "" => ret[1].name # ""

\* C8: the confidence of the tracked best candidate and of the returned
\* record is between 0 and 1.
C8_ConfidenceInUnitInterval ==
    /\ best_score \in 0..100
    /\ best_info.confidence_score \in 0..100
    /\ rpc = "returned" => ret[1].confidence_score \in 0..100

\* C17: a call whose best confidence stayed below 0.5 returns and caches the
\* generated record, of confidence 0.7; a call whose best confidence is 0.5 or
\* more returns its best candidate; so a returned record has a confidence of
\* 0.5 at least.
C17_FallbackBelowHalf ==
    rpc = "returned" /\ ~repeatCall =>
        /\ best_score < 50 =>
              /\ ret[1] = GenerateFallbackInfo(rsku)
              /\ ret[1].confidence_score = 70
        /\ best_score >= 50 => ret[1].confidence_score = best_score
        /\ ret[1].confidence_score >= 50
        /\ search_cache[rsku] = ret[1]

\* C17 witness: a call returned the generated record after a candidate of a
\* confidence between 0 and 0.5 had been the best one
C17_Witness ==
    /\ rpc = "returned"
    /\ ~repeatCall
    /\ best_score \in 1..49
    /\ ret[1] = GenerateFallbackInfo(rsku)

\* C18: from the moment the best confidence of a call is above 0.8, the call
\* makes no search and no fetch any more.
C18_NoCallAfterGoodResult ==
    [][(rpc \in {"query", "results", "after_loop"} /\ best_score > 80)
          => (searchCalls' = searchCalls /\ fetchCalls' = fetchCalls)]_vars

\* the greater of two numbers
MaxOf(a, b) == IF a >= b THEN a ELSE b

\* C19: a turn of the loop over the results fetches a page only for a result
\* of a priority site whose candidate is above 0.7; after the turn the best
\* confidence is the greatest of the best one before, the candidate's and,
\* if a page gave a record, 0.95; the best record has that confidence and is
\* replaced only by a record of a strictly higher confidence.
C19_BestIsMaximum ==
    [][(rpc = "results" /\ ri' = ri + 1) =>
          (/\ best_score' >= best_score
           /\ best_score' = best_score => best_info' = best_info
           /\ best_info'.confidence_score = best_score'
           /\ \E r \in DOMAIN CandidateTable[rsku] :
                 /\ fetchCalls' # fetchCalls =>
                       /\ BonusTable[rsku][r] > 0
                       /\ CandidateTable[rsku][r].confidence_score > 70
                 /\ \/ best_score' = MaxOf(best_score, CandidateTable[rsku][r].confidence_score)
                    \/ /\ fetchCalls' = fetchCalls + 1
                       /\ best_score' = MaxOf(MaxOf(best_score,
                                                   CandidateTable[rsku][r].confidence_score),
                                             DetailedConfidence))]_vars

\* C19 witness: a page was fetched and its record, of confidence 0.95, took
\* the place of a best candidate above 0.7
C19_Witness ==
    /\ rpc = "results"
    /\ fetchCalls >= 1
    /\ best_score = DetailedConfidence
    /\ best_info.confidence_score = DetailedConfidence

(***************************************************************************)
(* search_product_info as one step: the records a call can return are the  *)
(* ones of the returned frames that the steps above reach.                 *)
(***************************************************************************)

\* every step a call can take from frame f
FrameSteps(f, st, bt) ==
    IF f.rpc = "query" /\ f.qi <= 3
    THEN (IF st THEN SearchWithToolSteps(f) ELSE {SearchSimulatedStep(f)})
    ELSE IF f.rpc = "results"
    THEN AnalyseResultSteps(f, st, bt)
            \cup AnalyseResultAndNavigateSteps(f, st, bt)
            \cup (IF ResultsAreRead(f, st) THEN {EndOfResultsStep(f)} ELSE {})
    ELSE IF LoopIsOver(f) THEN {ReturnStep(f)}
    ELSE {}

RECURSIVE ReachableFrames(_, _, _, _)
RECURSIVE FramesWith(_, _, _, _)
\* the frames reached from the frames seen, whose last ones are the frontier
ReachableFrames(seen, frontier, st, bt) ==
    IF frontier = {} THEN seen
    ELSE FramesWith(seen, UNION {FrameSteps(f, st, bt) : f \in frontier} \ seen,
                    st, bt)

\* the frames reached from the frames seen, next being the new ones of them
FramesWith(seen, next, st, bt) == ReachableFrames(seen \cup next, next, st, bt)

\* the records a call for a sku that is not cached can return
ReturnedRecords(sku, st, bt) ==
    {f.ret[1] : f \in {g \in ReachableFrames({FirstFrame(sku)}, {FirstFrame(sku)}, st, bt) :
                          g.rpc = "returned"}}

\* ReturnedRecords, tabulated once
ReturnedTable ==
    [sku \in SKUs |-> [st \in BOOLEAN |-> [bt \in BOOLEAN |->
        ReturnedRecords(sku, st, bt)]]]

\* what search_product_info(sku) can return, given the cache
SearchProductInfoReturns(sku) ==
    IF sku \in DOMAIN search_cache THEN {search_cache[sku]}
    ELSE ReturnedTable[sku][search_tool][browser_tool]

(***************************************************************************)
(* process_excel_file.  A workbook is its set of column names and its rows;*)
(* a row has the cell under SKU (<<text>>, or << >> for an empty cell) and *)
(* the cell under the price column (a number, text that is no number, or   *)
(* an empty cell, which pandas reads as NaN).  input_file is a path that   *)
(* holds ".xlsx", so output_file is another path than input_file.          *)
(***************************************************************************)

MaxRows == 2    \* rows of the workbook

RECURSIVE ReplaceFrom(_, _, _, _)
\* s[i-1:].replace(old, new)
ReplaceFrom(s, old, new, i) ==
    LET k == IndexFrom(s, old, i)
    IN  IF k = 0 THEN Suffix(s, i)
        ELSE SubSeq(s, i, k - 1) \o new \o ReplaceFrom(s, old, new, k + Len(old))

\* s.replace(old, new)
Replace(s, old, new) == ReplaceFrom(s, old, new, 1)

input_file == "uploads/products.xlsx"

\* output_file of line 650
OutputFileName(path) == Replace(path, ".xlsx", "_enrichi_production.xlsx")

RawRow(sku, price) == [SKU |-> sku, price |-> price]

\* The rows a workbook is made of: two good rows (the second with blanks
\* around its SKU), a row without SKU, rows whose price is text or missing,
\* and a row with a negative price.
RawRows ==
    {RawRow(<<"DS-2CD1234">>, NumArg(10000)),
     RawRow(<<" AJ7 ">>, NumArg(1000)),
     RawRow(<< >>, NumArg(1000)),
     RawRow(<<"AJ7">>, TextArg),
     RawRow(<<"DS-2CD1234">>, NanArg),
     RawRow(<<"AJ7">>, NumArg(-500))}

\* the column names a workbook can have
Headers ==
    {{"SKU", "Prix d'achat"}, {"SKU", "Prix Achat"}, {"SKU", "Prix achat"},
     {"Prix d'achat"}}

Workbook(columns, rows) == [readable |-> TRUE, columns |-> columns, rows |-> rows]

\* The workbooks: every sequence of rows under the usual header, one row
\* under each other header, and a file that is no workbook.
InputFiles ==
    {UnreadableFile}
        \cup {Workbook({"SKU", "Prix d'achat"}, r) :
                r \in UNION {[1..n -> RawRows] : n \in 0..MaxRows}}
        \cup {Workbook(c, <<r>>) : c \in Headers, r \in RawRows}

\* the rename of line 573
RenamedColumns(columns) ==
    IF "Prix Achat" \in columns
    THEN (columns \ {"Prix Achat"}) \cup {"Prix d'achat"}
    ELSE columns

\* dropna on both columns, to_numeric(errors='coerce'), dropna on the price
KeptByValidation(row) == row.SKU # << >> /\ row.price.kind = "num"
ValidRows(rows) == SelectSeq(rows, KeptByValidation)

\* validated = quality_score >= 95.0, and the comparison made strict
QualityThresholdStrict(quality_score) == quality_score > 950
QualityThresholdMet(quality_score) == quality_score >= 950

\* the dict built for a row (lines 621-633); the keys are written without
\* blanks and accents
RowResult(sku, row, product_info) ==
    LET prices == calculate_prices(row.price)
        descriptions == generate_descriptions(sku, product_info, prices)
        quality_score == evaluate_quality(sku, product_info, descriptions)
        validated == QualityThresholdMet(quality_score)
    IN  [SKU |-> sku,
         LibelleGestion |-> descriptions.management_label,
         DescriptionDevis |-> descriptions.quote_description,
         DescriptionEcommerce |-> descriptions.ecommerce_description,
         PrixAchat |-> row.price.cents,
         PrixDeRevient |-> prices.cost_price,
         PrixDeVente |-> prices.selling_price,
         Accessoires |-> Join(product_info.accessories, ", "),
         FiltresEcommerce |-> Join(product_info.filters, ", "),
         ScoreQualite |-> quality_score,
         Statut |-> IF validated THEN "Valide" ELSE "Rejete"]

\* the records search_product_info can return for sku
PossibleRecords(sku) ==
    {FallbackTable[sku]}
        \cup {CandidateTable[sku][r] : r \in ResultsFor(sku)}
        \cup UNION {DetailedTable[sku][r][f] :
                        r \in ResultsFor(sku), f \in FetchOutcomes(sku)}

\* RowResult, tabulated once
RowResultTable ==
    [sku \in SKUs |->
        [row \in {r \in RawRows : KeptByValidation(r)} |->
            [product_info \in PossibleRecords(sku) |->
                RowResult(sku, row, product_info)]]]

\* the filter of line 653, and a filter that keeps every row
KeepsEveryRow(r) == TRUE
IsValidatedResult(r) == r.Statut = "Valide"

\* output_df.drop(columns=['Statut'])
DropStatut(r) == [f \in (DOMAIN r) \ {"Statut"} |-> r[f]]

\* the rows written to output_file
ExportedRows(results) ==
    LET validated_results == SelectSeq(results, IsValidatedResult)
    IN  [i \in 1..Len(validated_results) |-> DropStatut(validated_results[i])]

\* the rate of line 681 without its factor 100
ValidationRateAsFraction(valid, processed) ==
    valid \div (IF processed > 1 THEN processed ELSE 1)

\* validation_rate, in hundredths of a percent (truncated)
ValidationRate(valid, processed) ==
    (valid * 10000) \div (IF processed > 1 THEN processed ELSE 1)

\* the dict of line 694
Failure(error) == [success |-> FALSE, error |-> error]

\* process_excel_file is called: the workbook is read and validated
ProcessExcelFile ==
    /\ bpc = "idle"
    /\ IF ~inputFile.readable
       THEN \* pd.read_excel raises
            /\ outcome' = <<Failure("read_excel")>>
            /\ bpc' = "done"
            /\ UNCHANGED <<df, idx, all_results, processed_count, valid_count>>
       ELSE IF ~({"SKU", "Prix d'achat"} \subseteq RenamedColumns(inputFile.columns))
       THEN \* dropna raises KeyError
            /\ outcome' = <<Failure("KeyError")>>
            /\ bpc' = "done"
            /\ UNCHANGED <<df, idx, all_results, processed_count, valid_count>>
       ELSE /\ df' = ValidRows(inputFile.rows)
            /\ processed_count' = 0
            /\ valid_count' = 0
            /\ all_results' = << >>
            /\ idx' = 1
            /\ bpc' = "rows"
            /\ UNCHANGED outcome
    /\ UNCHANGED <<priceVars, qualVars, toolVars, resolverVars, inputFile,
                   progress_callback, progress, outFile, caught, active_tasks>>

\* line 599: search_product_info(sku) has returned product_info; a call for
\* a sku that was not cached has stored it
RowResolved(sku, product_info) ==
    /\ search_cache' = IF sku \in DOMAIN search_cache THEN search_cache
                        ELSE CacheStore(search_cache, sku, product_info)
    /\ firstRet' = IF sku \in DOMAIN firstRet THEN firstRet
                    ELSE (sku :> product_info) @@ firstRet

\* self.valid_count left as it was before the row
ValidCountBefore(result) == valid_count

\* self.valid_count after a row with this result
ValidCountWith(result) ==
    IF result.Statut = "Valide" THEN valid_count + 1 ELSE valid_count

\* what a call of progress_callback can do: it returns (FALSE) or raises
\* (TRUE); no call is made when no callback is given
CallbackRaises == IF progress_callback THEN BOOLEAN ELSE {FALSE}

\* lines 635-640: the result is appended and counted, and progress_callback
\* is called.  Whether the callback returns or raises, the loop goes on with
\* the next row; when it raises, the except clause of line 645 catches it.
RowRecorded(result) ==
    /\ \E raises \in CallbackRaises :
          caught' = IF raises THEN caught \cup {idx} ELSE caught
    /\ all_results' = Append(all_results, result)
    /\ valid_count' = ValidCountWith(result)
    /\ processed_count' = processed_count + 1
    /\ progress' = IF progress_callback
                    THEN Append(progress, <<processed_count + 1, Len(df),
                                            ValidCountWith(result)>>)
                    ELSE progress

\* the body of the loop for a row and its stripped sku
RowProcessed(sku, row) ==
    \E product_info \in SearchProductInfoReturns(sku) :
        /\ RowResolved(sku, product_info)
        /\ RowRecorded(RowResultTable[sku][row][product_info])

\* One turn of the loop over the rows: search_product_info, prices,
\* descriptions, score and status; the result is appended and
\* progress_callback is called.
ProcessRow ==
    /\ bpc = "rows"
    /\ idx <= Len(df)
    /\ RowProcessed(Strip(df[idx].SKU[1]), df[idx])
    /\ idx' = idx + 1
    /\ UNCHANGED <<priceVars, qualVars, toolVars, rpc, rsku, qi, ri, best_info,
                   best_score, ret, searchCalls, searchRaises, fetchCalls,
                   repeatCall, bpc, inputFile, progress_callback, df, outFile,
                   outcome, active_tasks>>

\* after the loop: the workbook is written if a row was validated, and the
\* dict of line 685 is returned
WriteOutput ==
    /\ bpc = "rows"
    /\ idx > Len(df)
    /\ outFile' = IF ExportedRows(all_results) # << >>
                  THEN <<ExportedRows(all_results)>>
                  ELSE outFile
    /\ outcome' = <<[success |-> TRUE,
                     output_file |-> OutputFileName(input_file),
                     total_products |-> processed_count,
                     valid_products |-> valid_count,
                     validation_rate |-> ValidationRate(valid_count, processed_count)]>>
    /\ bpc' = "done"
    /\ UNCHANGED <<priceVars, qualVars, toolVars, resolverVars, inputFile,
                   progress_callback, df, idx, all_results, processed_count,
                   valid_count, progress, caught, active_tasks>>

Init ==
    /\ PricesIdle
    /\ QualityIdle
    /\ search_tool \in BOOLEAN
    /\ browser_tool \in BOOLEAN
    /\ ResolverInit
    /\ inputFile \in InputFiles
    /\ progress_callback \in BOOLEAN
    /\ BatchNotStarted

Next ==
    \/ ProcessExcelFile
    \/ ProcessRow
    \/ WriteOutput

Spec == Init /\ [][Next]_vars

\* process_excel_file has returned success
BatchSucceeded == bpc = "done" /\ outcome[1].success

\* the positions in all_results of the rows marked validated
ValidatedPositions == {i \in 1..Len(all_results) : all_results[i].Statut = "Valide"}

\* the rows of the workbook at output_file (none when there is no workbook)
OutputRows == IF outFile = << >> THEN << >> ELSE outFile[1]

\* C1: after a successful run the rows of the output workbook are the rows
\* marked validated, each once and in the order they were processed (the
\* k-th exported row is the row at the k-th validated position), no rejected
\* row is among them, and no exported row has the field Statut.
C1_OutputIsValidatedRows ==
    BatchSucceeded =>
        /\ Len(OutputRows) = Cardinality(ValidatedPositions)
        /\ \A k \in 1..Len(OutputRows) :
              \E i \in ValidatedPositions :
                 /\ Cardinality({j \in ValidatedPositions : j <= i}) = k
                 /\ "Statut" \notin DOMAIN OutputRows[k]
                 /\ \A f \in DOMAIN OutputRows[k] : OutputRows[k][f] = all_results[i][f]
                 /\ DOMAIN OutputRows[k] = (DOMAIN all_results[i]) \ {"Statut"}

\* C1 witness: a run ended with a rejected row followed by a validated one,
\* and the workbook has one row
C1_Witness ==
    /\ BatchSucceeded
    /\ Len(all_results) = 2
    /\ all_results[1].Statut = "Rejete"
    /\ all_results[2].Statut = "Valide"
    /\ Len(OutputRows) = 1

\* C2: a processed row is marked validated exactly when its score is 95.0 or
\* more, and valid_count is the number of such rows.
C2_ValidatedIffScoreAtLeast95 ==
    /\ \A i \in 1..Len(all_results) :
          (all_results[i].Statut = "Valide") <=> (all_results[i].ScoreQualite >= 950)
    /\ bpc \in {"rows", "done"} =>
          valid_count = Cardinality({i \in 1..Len(all_results) :
                                        all_results[i].ScoreQualite >= 950})

\* C2 witness: a row scored exactly 95.0 and was validated, another scored
\* 94.5 and was rejected
C2_Witness ==
    /\ \E i \in 1..Len(all_results) :
          all_results[i].ScoreQualite = 950 /\ all_results[i].Statut = "Valide"
    /\ \E i \in 1..Len(all_results) :
          all_results[i].ScoreQualite = 945 /\ all_results[i].Statut = "Rejete"
    /\ valid_count = 1

\* C10: a successful run in which no row was validated has written an
\* output workbook without data rows, and reports the counts (a validation
\* rate of 0 when nothing was processed).
C10_EmptyArtifactWritten ==
    BatchSucceeded /\ ValidatedPositions = {} =>
        /\ outcome[1].total_products = Len(all_results)
        /\ outcome[1].valid_products = 0
        /\ outcome[1].validation_rate = 0
        /\ outFile = << << >> >>

\* C11: in every outcome returned with success, valid_products is at most
\* total_products and validation_rate is valid_products / total_products x 100
\* (here in hundredths of a percent, truncated), 0 when nothing was processed.
C11_CountsAndRate ==
    BatchSucceeded =>
        /\ outcome[1].valid_products <= outcome[1].total_products
        /\ outcome[1].total_products = 0 => outcome[1].validation_rate = 0
        /\ outcome[1].total_products > 0 =>
              /\ outcome[1].validation_rate * outcome[1].total_products
                    <= outcome[1].valid_products * 10000
              /\ outcome[1].valid_products * 10000
                    < (outcome[1].validation_rate + 1) * outcome[1].total_products

\* C11 witness: a run ended with one of two processed rows validated, and
\* reports 50 %
C11_Witness ==
    /\ BatchSucceeded
    /\ outcome[1].total_products = 2
    /\ outcome[1].valid_products = 1
    /\ outcome[1].validation_rate = 5000

\* what the loop of lines 591-647 is meant to be given: a SKU that is not
\* empty once stripped and a price that is a number and not negative
MeetsRowPreconditions(row) ==
    /\ row.SKU # << >>
    /\ Strip(row.SKU[1]) # ""
    /\ row.price.kind = "num"
    /\ row.price.cents >= 0

\* C12: the rows without SKU, with a SKU that is blank, or with a price that
\* is missing, no number or negative are skipped: the run succeeds, and its
\* results and its count of processed rows are those of the other rows.
C12_InvalidRowsSkipped ==
    bpc = "done" /\ inputFile.readable
                 /\ {"SKU", "Prix d'achat"} \subseteq inputFile.columns =>
        /\ outcome[1].success
        /\ outcome[1].total_products
              = Len(SelectSeq(inputFile.rows, MeetsRowPreconditions))
        /\ Len(all_results) = Len(SelectSeq(inputFile.rows, MeetsRowPreconditions))
        /\ \A i \in 1..Len(all_results) :
              all_results[i].SKU
                = Strip(SelectSeq(inputFile.rows, MeetsRowPreconditions)[i].SKU[1])

\* the check of the columns made when a file is uploaded (app.py, lines
\* 215-228)
UploadAcceptsColumns(columns) ==
    /\ "SKU" \in columns
    /\ columns \cap {"Prix d'achat", "Prix Achat", "Prix achat"} # {}

\* C13: a workbook whose price column has one of the three spellings the
\* upload accepts is processed: the run ends with success and has processed
\* the rows that pass the validation.
C13_EverySpellingProcessed ==
    bpc = "done" /\ inputFile.readable /\ UploadAcceptsColumns(inputFile.columns) =>
        /\ outcome[1].success
        /\ outcome[1].total_products = Len(ValidRows(inputFile.rows))

\* C14: on an agent without search tool the row DS-2CD1234 at 100.00 is
\* resolved by the generated record (confidence 0.7, category "Camera IP"),
\* costs 116.00, sells at 178.46 and has a label that starts with its SKU.
C14_NoToolScenarioFallback ==
    bpc = "done" /\ ~search_tool /\ outcome[1].success =>
        \A i \in 1..Len(all_results) :
            df[i] = RawRow(<<"DS-2CD1234">>, NumArg(10000)) =>
                /\ firstRet["DS-2CD1234"] = FallbackTable["DS-2CD1234"]
                /\ firstRet["DS-2CD1234"].confidence_score = 70
                /\ firstRet["DS-2CD1234"].category = "Camera IP"
                /\ all_results[i].PrixDeRevient = 11600
                /\ all_results[i].PrixDeVente = 17846
                /\ StartsWith(all_results[i].LibelleGestion, "DS-2CD1234 - ")

\* C20: progress_callback is called once after every row, in order, with the
\* count of the rows processed so far (1, 2, 3, ...), the number of rows of
\* df, and the count of the rows validated so far, which never decreases
\* and is at most the count of the processed ones.
C20_ProgressAfterEveryRow ==
    /\ ~progress_callback => progress = << >>
    /\ progress_callback /\ bpc \in {"rows", "done"} /\ df # << >> =>
          /\ Len(progress) = Len(all_results)
          /\ \A i \in 1..Len(progress) :
                /\ progress[i][1] = i
                /\ progress[i][2] = Len(df)
                /\ progress[i][3]
                      = Cardinality({j \in 1..i : all_results[j].Statut = "Valide"})
                /\ progress[i][3] <= progress[i][1]
                /\ i > 1 => progress[i - 1][3] <= progress[i][3]

\* C20 witness: the callback was called after a rejected row and after a
\* validated one
C20_Witness ==
    /\ progress_callback
    /\ bpc = "done"
    /\ Len(progress) = 2
    /\ progress[1] = <<1, 2, 0>>
    /\ progress[2] = <<2, 2, 1>>

\* C21: the step of the loop in which an exception is caught for a row
\* leaves all_results, processed_count and valid_count as they were.
C21_CaughtRowLeavesNoTrace ==
    [][(caught' # caught)
          => (/\ all_results' = all_results
              /\ processed_count' = processed_count
              /\ valid_count' = valid_count)]_vars

(***************************************************************************)
(* evaluate_quality applied to one input                                   *)
(***************************************************************************)

MaxAccessories == 3     \* accessories of a record: 0 .. MaxAccessories

RECURSIVE Pad(_)
\* a text of n characters
Pad(n) == IF n = 0 THEN "" ELSE IF n = 1 THEN "x" ELSE Pad(n \div 2) \o Pad(n - n \div 2)

\* lengths on both sides of every threshold of a band
NameTexts(sku) ==
    {Pad(5), Pad(6), Pad(11), Pad(16), Pad(20), sku \o Pad(3), sku \o Pad(16)}
DescriptionTexts == {Pad(15), Pad(16), Pad(31), Pad(51), Pad(81)}
SpecificationTexts == {Pad(5), Pad(6), Pad(16), Pad(26), Pad(41)}
AccessoryLists == {[i \in 1..n |-> "Cable"] : n \in 0..MaxAccessories}
LabelTexts == {Pad(10), Pad(11), Pad(21)}
EcommerceTexts == {Pad(150), Pad(151), Pad(251), Pad(401)}

\* confidences: none, the ones search_product_info returns (0.5 to 1.3)
Confidences == {0, 50, 70, 95, 100, 130}

QualityInputs ==
    {QualityArg("AJ7",
                [ProductInfo("AJ7") EXCEPT !.name = n, !.description = d,
                        !.specifications = s, !.accessories = a,
                        !.confidence_score = c],
                [NoDescriptions EXCEPT !.management_label = l,
                        !.ecommerce_description = e]) :
        n \in NameTexts("AJ7"), d \in DescriptionTexts, s \in SpecificationTexts,
        a \in AccessoryLists, c \in Confidences, l \in LabelTexts,
        e \in EcommerceTexts}

InitQuality ==
    /\ PricesIdle
    /\ qualArg \in QualityInputs
    /\ qualRes = << >>
    /\ search_tool = FALSE
    /\ browser_tool = FALSE
    /\ ResolverInit
    /\ BatchIdle

EvaluateQuality ==
    /\ qualRes = << >>
    /\ qualRes' = <<evaluate_quality(qualArg.sku, qualArg.product_info,
                                     qualArg.descriptions)>>
    /\ UNCHANGED <<priceVars, qualArg, toolVars, resolverVars, batchVars>>

NextQuality == EvaluateQuality

SpecQuality == InitQuality /\ [][NextQuality]_vars

\* C9: the score evaluate_quality returns is between 0 and 100.
C9_QualityScoreInRange ==
    qualRes # << >> => qualRes[1] \in 0..1000

\* C9 witness: the score 100 was returned for an input whose bands and
\* confidence add up to 113
C9_Witness ==
    /\ qualRes = <<1000>>
    /\ QualityScoreUncapped(qualArg.sku, qualArg.product_info,
                            qualArg.descriptions) = 1130

(***************************************************************************)
(* calculate_prices applied to one argument                                *)
(***************************************************************************)

PriceInputs ==
    {NumArg(c) : c \in (0 - MaxNegCents)..MaxCents}
        \cup {NumArg(1000), NumArg(10000), NanArg, InfArg, TextArg}

InitPrices ==
    /\ priceArg \in PriceInputs
    /\ priceRes = << >>
    /\ QualityIdle
    /\ BatchIdle
    /\ search_tool = FALSE
    /\ browser_tool = FALSE
    /\ ResolverInit

CalculatePrices ==
    /\ priceRes = << >>
    /\ priceRes' = <<calculate_prices(priceArg)>>
    /\ UNCHANGED <<priceArg, qualVars, toolVars, resolverVars, batchVars>>

NextPrices == CalculatePrices

SpecPrices == InitPrices /\ [][NextPrices]_vars

\* calculate_prices has returned for a purchase price of c >= 0 whole cents
PriceReturnedFor(c) ==
    /\ priceRes # << >>
    /\ priceArg = NumArg(c)

\* r is the quotient n / d (d > 0, n >= 0) rounded to the nearest integer,
\* a tie going up
IsHalfUpOf(r, n, d) == 2 * r * d - d <= 2 * n /\ 2 * n < 2 * r * d + d

\* C3 (as amended): for a purchase price of c >= 0 whole cents the cost price
\* is c * 1.16 rounded half up to the cent and the selling price is the
\* unrounded product c * 1.16 divided by 0.65, rounded half up to the cent;
\* neither is negative, and 10.00 gives 11.60 and 17.85.
C3_PricesFromUnroundedCost ==
    priceRes # << >> /\ priceArg.kind = "num" /\ priceArg.cents >= 0 =>
        /\ ~priceRes[1].nan
        /\ IsHalfUpOf(priceRes[1].cost_price, priceArg.cents * 116, 100)
        /\ IsHalfUpOf(priceRes[1].selling_price, priceArg.cents * 116, 65)
        /\ priceRes[1].cost_price >= 0
        /\ priceRes[1].selling_price >= 0
        /\ (priceArg.cents = 1000 =>
                priceRes[1] = PriceSet(1160, 1785))

\* C3 witness: prices were computed for 0.02, where the rounded cost price
\* (0.02) and the unrounded one (0.0232) give different selling prices
C3_Witness ==
    /\ PriceReturnedFor(2)
    /\ priceRes[1] = PriceSet(2, 4)

\* C3 as stated: the selling price is the already rounded cost price divided
\* by 0.65, rounded half up to the cent.
C3_SellingFromRoundedCost ==
    priceRes # << >> /\ priceArg.kind = "num" /\ priceArg.cents >= 0 =>
        /\ IsHalfUpOf(priceRes[1].cost_price, priceArg.cents * 116, 100)
        /\ IsHalfUpOf(priceRes[1].selling_price,
                      priceRes[1].cost_price * 100, 65)

\* C4: a non-numeric or negative argument yields the zeroed price set.
C4_InvalidInputZeroed ==
    /\ priceRes # << >>
    /\ \/ priceArg.kind = "text"
       \/ priceArg.kind = "num" /\ priceArg.cents < 0
    => priceRes[1] = ZeroPriceSet

(***************************************************************************)
(* evaluate_quality on two inputs of which one has a longer field          *)
(***************************************************************************)

\* the inputs that differ from arg in one field of product_info, which is
\* longer
LongerInfo(arg) ==
    {[arg EXCEPT !.product_info.name = n] :
        n \in {m \in NameTexts(arg.sku) : Len(m) > Len(arg.product_info.name)}}
    \cup {[arg EXCEPT !.product_info.description = d] :
        d \in {m \in DescriptionTexts : Len(m) > Len(arg.product_info.description)}}
    \cup {[arg EXCEPT !.product_info.specifications = t] :
        t \in {m \in SpecificationTexts :
                    Len(m) > Len(arg.product_info.specifications)}}
    \cup {[arg EXCEPT !.product_info.accessories = a] :
        a \in {m \in AccessoryLists : Len(m) > Len(arg.product_info.accessories)}}

\* the inputs that differ from arg in one of the descriptions, which is
\* longer
LongerDescriptions(arg) ==
    {[arg EXCEPT !.descriptions.management_label = l] :
        l \in {m \in LabelTexts : Len(m) > Len(arg.descriptions.management_label)}}
    \cup {[arg EXCEPT !.descriptions.ecommerce_description = e] :
        e \in {m \in EcommerceTexts :
                    Len(m) > Len(arg.descriptions.ecommerce_description)}}

\* the score of an input
ScoreOf(arg) == evaluate_quality(arg.sku, arg.product_info, arg.descriptions)

\* the longer name holds the SKU if the name of arg does
KeepsSkuInName(arg, longer) ==
    Contains(arg.product_info.name, arg.sku)
        => Contains(longer.product_info.name, arg.sku)

\* C16 as stated: an input that differs from the scored one by a longer
\* name, description, specifications, label or e-commerce description, or by
\* more accessories, never scores less.
C16_LongerNeverScoresLess ==
    qualRes # << >> =>
        \A longer \in LongerInfo(qualArg) \cup LongerDescriptions(qualArg) :
            ScoreOf(longer) >= qualRes[1]

\* C16 amended: the same, for the longer names that still hold the SKU when
\* the shorter name holds it.
C16_LongerKeepingSkuNeverScoresLess ==
    qualRes # << >> =>
        \A longer \in LongerInfo(qualArg) \cup LongerDescriptions(qualArg) :
            KeepsSkuInName(qualArg, longer) => ScoreOf(longer) >= qualRes[1]

\* C16 witness: an input was scored of which a longer name that holds the
\* SKU scores more, and a longer name without the SKU scores less
C16_Witness ==
    /\ qualRes # << >>
    /\ \E longer \in LongerInfo(qualArg) :
          KeepsSkuInName(qualArg, longer) /\ ScoreOf(longer) > qualRes[1]
    /\ \E longer \in LongerInfo(qualArg) :
          ~KeepsSkuInName(qualArg, longer) /\ ScoreOf(longer) < qualRes[1]

(***************************************************************************)
(* Two uploads processed at the same time (app.py).  upload_file saves     *)
(* each workbook under a path that starts with its task_id and starts a    *)
(* thread that runs process_file_async, which makes an agent, gives it the *)
(* tools and calls its process_excel_file with a callback that updates the *)
(* TaskProgress of the task.  Here the variables of process_excel_file are *)
(* functions of the task, and search_cache, processed_count and            *)
(* valid_count are functions of the agent.  The steps of the two threads   *)
(* interleave between rows.                                                *)
(***************************************************************************)

MaxTasks == 2       \* uploads processed at the same time
MaxTaskRows == 2    \* rows of an uploaded workbook

Tasks == 1..MaxTasks

\* one agent used by every task
SharedAgent(t) == 1

\* the agent process_file_async makes for task t (app.py, line 149)
AgentOf(t) == t

Agents == {AgentOf(t) : t \in Tasks}

\* file_path of upload_file, and the path task t writes to
TaskFilePath(t) == IF t = 1 THEN "uploads/1_products.xlsx" ELSE "uploads/2_products.xlsx"

\* the uploaded workbooks: rows that pass the checks of upload_file, for the
\* two SKUs, the first row being for the same SKU in every workbook, so that
\* the tasks resolve a common SKU; and a file that cannot be read
TaskFiles ==
    {UnreadableFile}
        \cup {Workbook({"SKU", "Prix d'achat"}, r) :
                r \in UNION {{q \in [1..n -> {RawRow(<<"DS-2CD1234">>, NumArg(10000)),
                                              RawRow(<<" AJ7 ">>, NumArg(1000))}] :
                                q[1].SKU = <<"DS-2CD1234">>} :
                             n \in 1..MaxTaskRows}}

\* what search_product_info(sku) can return to an agent with this cache and
\* both tools set
ReturnsGiven(cache, sku) ==
    IF sku \in DOMAIN cache THEN {cache[sku]} ELSE ReturnedTable[sku][TRUE][TRUE]

\* the cache after search_product_info(sku) returned info
CacheAfter(cache, sku, info) ==
    IF sku \in DOMAIN cache THEN cache ELSE CacheStore(cache, sku, info)

\* the dict of line 685
Success(path, processed, valid) ==
    [success |-> TRUE,
     output_file |-> OutputFileName(path),
     total_products |-> processed,
     valid_products |-> valid,
     validation_rate |-> ValidationRate(valid, processed)]

\* TaskProgress(task_id) as upload_file registers it: status and result
\* (<<the dict stored>>, << >> for None)
NewTaskProgress == [status |-> "starting", result |-> << >>]

\* self.status after TaskProgress.update(processed, total, ...)
StatusAfterUpdate(processed, total) ==
    IF processed >= total THEN "completed" ELSE "processing"

\* the status process_file_async leaves with a result: 'completed', or
\* 'error' by set_error
StatusWithResult(result) == IF result.success THEN "completed" ELSE "error"

InitTasks ==
    /\ PricesIdle
    /\ QualityIdle
    /\ search_tool = TRUE
    /\ browser_tool = TRUE
    /\ progress_callback = TRUE
    /\ FrameIs(NoFrame)
    /\ firstRet = << >>
    /\ repeatCall = FALSE
    /\ search_cache = [a \in Agents |-> << >>]
    /\ processed_count = [a \in Agents |-> 0]
    /\ valid_count = [a \in Agents |-> 0]
    /\ inputFile \in [Tasks -> TaskFiles]
    /\ bpc = [t \in Tasks |-> "idle"]
    /\ df = [t \in Tasks |-> << >>]
    /\ idx = [t \in Tasks |-> 0]
    /\ all_results = [t \in Tasks |-> << >>]
    /\ progress = [t \in Tasks |-> << >>]
    /\ outFile = [t \in Tasks |-> << >>]
    /\ outcome = [t \in Tasks |-> << >>]
    /\ caught = {}
    /\ active_tasks = [t \in Tasks |-> NewTaskProgress]

\* process_excel_file of the agent of task t is called: the workbook is read
\* and validated, and the counters of the agent are set to 0
TaskStart ==
    \E t \in Tasks :
        /\ bpc[t] = "idle"
        /\ IF ~inputFile[t].readable
           THEN /\ outcome' = [outcome EXCEPT ![t] = <<Failure("read_excel")>>]
                /\ bpc' = [bpc EXCEPT ![t] = "done"]
                /\ UNCHANGED <<df, idx, processed_count, valid_count>>
           ELSE /\ df' = [df EXCEPT ![t] = ValidRows(inputFile[t].rows)]
                /\ processed_count' = [processed_count EXCEPT ![AgentOf(t)] = 0]
                /\ valid_count' = [valid_count EXCEPT ![AgentOf(t)] = 0]
                /\ idx' = [idx EXCEPT ![t] = 1]
                /\ bpc' = [bpc EXCEPT ![t] = "rows"]
                /\ UNCHANGED outcome
        /\ UNCHANGED <<priceVars, qualVars, toolVars, resolverVars, inputFile,
                       progress_callback, all_results, progress, outFile,
                       caught, active_tasks>>

\* self.valid_count of agent a after a row with this result
TaskValidCountWith(a, result) ==
    IF result.Statut = "Valide" THEN valid_count[a] + 1 ELSE valid_count[a]

\* the body of the loop of task t, run by agent a for a row and its stripped
\* sku, when search_product_info has returned product_info with this result;
\* the callback of process_file_async updates the TaskProgress of the task
TaskRowRecorded(t, a, sku, product_info, result) ==
    /\ active_tasks' = [active_tasks EXCEPT
                            ![t].status = StatusAfterUpdate(processed_count[a] + 1,
                                                            Len(df[t]))]
    /\ search_cache' = [search_cache EXCEPT
                            ![a] = CacheAfter(search_cache[a], sku, product_info)]
    /\ all_results' = [all_results EXCEPT ![t] = Append(@, result)]
    /\ valid_count' = [valid_count EXCEPT ![a] = TaskValidCountWith(a, result)]
    /\ processed_count' = [processed_count EXCEPT ![a] = @ + 1]
    /\ progress' = [progress EXCEPT
                        ![t] = Append(@, <<processed_count[a] + 1, Len(df[t]),
                                           TaskValidCountWith(a, result)>>)]

TaskRowProcessed(t, a, sku, row) ==
    \E product_info \in ReturnsGiven(search_cache[a], sku) :
        TaskRowRecorded(t, a, sku, product_info,
                        RowResultTable[sku][row][product_info])

\* one turn of the loop over the rows in the thread of task t
TaskProcessRow ==
    \E t \in Tasks :
        /\ bpc[t] = "rows"
        /\ idx[t] <= Len(df[t])
        /\ TaskRowProcessed(t, AgentOf(t), Strip(df[t][idx[t]].SKU[1]), df[t][idx[t]])
        /\ idx' = [idx EXCEPT ![t] = @ + 1]
        /\ UNCHANGED <<priceVars, qualVars, toolVars, rpc, rsku, qi, ri, best_info,
                       best_score, ret, searchCalls, searchRaises, fetchCalls,
                       firstRet, repeatCall, bpc, inputFile, progress_callback, df,
                       outFile, outcome, caught>>

\* after the loop of task t: the workbook is written if a row was validated,
\* and the dict is returned to process_file_async
TaskWriteOutput ==
    \E t \in Tasks :
        /\ bpc[t] = "rows"
        /\ idx[t] > Len(df[t])
        /\ outFile' = [outFile EXCEPT
                          ![t] = IF ExportedRows(all_results[t]) # << >>
                                 THEN <<ExportedRows(all_results[t])>>
                                 ELSE @]
        /\ outcome' = [outcome EXCEPT
                          ![t] = <<Success(TaskFilePath(t),
                                           processed_count[AgentOf(t)],
                                           valid_count[AgentOf(t)])>>]
        /\ bpc' = [bpc EXCEPT ![t] = "done"]
        /\ UNCHANGED <<priceVars, qualVars, toolVars, resolverVars, inputFile,
                       progress_callback, df, idx, all_results, processed_count,
                       valid_count, progress, caught, active_tasks>>

\* process_file_async stores what process_excel_file returned as the result
\* of task t and sets the status (app.py, lines 161-167)
TaskStoreResult ==
    \E t \in Tasks :
        /\ bpc[t] = "done"
        /\ active_tasks[t].result = << >>
        /\ active_tasks' = [active_tasks EXCEPT
                                ![t] = [status |-> StatusWithResult(outcome[t][1]),
                                        result |-> outcome[t]]]
        /\ UNCHANGED <<priceVars, qualVars, toolVars, resolverVars, bpc,
                       inputFile, progress_callback, df, idx, all_results,
                       processed_count, valid_count, progress, outFile,
                       outcome, caught>>

\* what download_result answers for task t: the status code of the error,
\* or 200 with the file
DownloadResult(t) ==
    IF \/ active_tasks[t].status # "completed"
       \/ active_tasks[t].result = << >>
       \/ ~active_tasks[t].result[1].success
    THEN 400
    ELSE IF outFile[t] = << >> THEN 404
    ELSE 200

NextTasks ==
    \/ TaskStart
    \/ TaskProcessRow
    \/ TaskWriteOutput
    \/ TaskStoreResult

SpecTasks == InitTasks /\ [][NextTasks]_vars

RECURSIVE AloneResultsFrom(_, _, _, _)
RECURSIVE AloneResultsWith(_, _, _, _, _)
\* the values of all_results with which a call of process_excel_file that
\* runs alone can leave the loop, from row i on with this cache and these
\* results
AloneResultsFrom(rows, i, cache, results) ==
    IF i > Len(rows) THEN {results}
    ELSE AloneResultsWith(rows, i, cache, results, Strip(rows[i].SKU[1]))

AloneResultsWith(rows, i, cache, results, sku) ==
    UNION {AloneResultsFrom(rows, i + 1, CacheAfter(cache, sku, product_info),
                            Append(results, RowResultTable[sku][rows[i]][product_info])) :
            product_info \in ReturnsGiven(cache, sku)}

\* AloneResultsFrom for a new agent, tabulated once
AloneResultsTable ==
    [file \in TaskFiles |-> AloneResultsFrom(ValidRows(file.rows), 1, << >>, << >>)]

\* the number of validated results
ValidatedIn(results) == Len(SelectSeq(results, IsValidatedResult))

\* what a call that runs alone on this file returns, its loop left with
\* these results
AloneOutcome(file, path, results) ==
    IF file.readable
    THEN Success(path, Len(results), ValidatedIn(results))
    ELSE Failure("read_excel")

\* the SKUs of the rows task t has processed
SkusDoneBy(t) == {Strip(df[t][i].SKU[1]) : i \in 1..(idx[t] - 1)}

\* the outcome of each task is one it has when it runs alone, and the cache
\* and the counters of its agent come from its own rows
C15_OutcomeAsAlone ==
    \A t \in Tasks :
        /\ bpc[t] \in {"rows", "done"} /\ inputFile[t].readable =>
              /\ DOMAIN search_cache[AgentOf(t)] = SkusDoneBy(t)
              /\ processed_count[AgentOf(t)] = Len(all_results[t])
              /\ valid_count[AgentOf(t)] = ValidatedIn(all_results[t])
        /\ bpc[t] = "done" =>
              /\ all_results[t] \in AloneResultsTable[inputFile[t]]
              /\ outcome[t] = <<AloneOutcome(inputFile[t], TaskFilePath(t),
                                             all_results[t])>>
              /\ outFile[t] = IF ExportedRows(all_results[t]) # << >>
                              THEN <<ExportedRows(all_results[t])>>
                              ELSE << >>

\* a step in which task t does nothing leaves the cache and the counters of
\* its agent as they were
C15_OtherTaskLeavesAgentAlone ==
    \A t \in Tasks :
        (bpc'[t] = bpc[t] /\ idx'[t] = idx[t]) =>
            (/\ search_cache'[AgentOf(t)] = search_cache[AgentOf(t)]
             /\ processed_count'[AgentOf(t)] = processed_count[AgentOf(t)]
             /\ valid_count'[AgentOf(t)] = valid_count[AgentOf(t)])

\* C15: the cache and the counters belong to the agent of one task: a step
\* of one batch never changes those of the other, what a batch caches and
\* counts comes from its own rows, and each batch ends with an outcome it can
\* have when it runs alone.
C15_BatchesAreIndependent ==
    []C15_OutcomeAsAlone /\ [][C15_OtherTaskLeavesAgentAlone]_vars

\* C15 witness: both batches are in their loops at the same time, both have
\* resolved the same SKU, to different records, and their counters differ
C15_Witness ==
    /\ bpc[1] = "rows" /\ bpc[2] = "rows"
    /\ \E sku \in DOMAIN search_cache[AgentOf(1)] \cap DOMAIN search_cache[AgentOf(2)] :
          search_cache[AgentOf(1)][sku] # search_cache[AgentOf(2)][sku]
    /\ processed_count[AgentOf(1)] = 2
    /\ processed_count[AgentOf(2)] = 1
    /\ valid_count[AgentOf(1)] # valid_count[AgentOf(2)]

\* whenever the status of a task is 'completed', its result is recorded with
\* success, the output is written and a download is answered with the file
C22_CompletedHasResult ==
    \A t \in Tasks :
        active_tasks[t].status = "completed" =>
            /\ active_tasks[t].result # << >>
            /\ active_tasks[t].result[1].success
            /\ outFile[t] # << >>
            /\ DownloadResult(t) = 200

\* a status that is 'completed' does not become 'error'
C22_CompletedStays ==
    \A t \in Tasks :
        active_tasks[t].status = "completed" => active_tasks'[t].status # "error"

\* C22: under every interleaving, a task whose status is 'completed' has its
\* result recorded with success and its output written, so that a download
\* is not rejected, and its status never becomes 'error'.
C22_CompletedIsFinal ==
    []C22_CompletedHasResult /\ [][C22_CompletedStays]_vars

====
